---- MODULE Spec2Model ----
(***************************************************************************)
(* Model of 0x02-redis_basic/web.py: the count_requests decorator, which   *)
(* counts every call of the wrapped get_page in Redis and caches the       *)
(* fetched page for 10 seconds.                                            *)
(*                                                                         *)
(* The Redis server is the shared state.  Each caller (a thread or a       *)
(* process running wrapper) is a process of the model whose steps are the  *)
(* Redis commands and the call of the wrapped method, in program order.    *)
(* A str is a sequence of code points, bytes are a sequence of 0..255.     *)
(***************************************************************************)
EXTENDS Integers, Sequences, FiniteSets, TLC

VARIABLES
    now,      \* the clock of the Redis server, in seconds
    store,    \* the Redis keyspace: key -> entry
    pc,       \* per caller: the statement of wrapper it is at
    url,      \* per caller: the argument of wrapper
    html,     \* per caller: the local variable html (line 53)
    out,      \* per caller: how its last call of wrapper ended
    ops,      \* per caller: the Redis commands and method calls of its call, in order
    calls,    \* history: per url, the calls of wrapper that were started
    fetches,  \* history: per url, the calls of method (line 53)
    fetched,  \* history: per url, the values method has returned
    writes,   \* history: per url, the SETEX commands that were executed
    wrote     \* history: per url, the time of the last SETEX, -1 before the first

vars == <<now, store, pc, url, html, out, ops,
          calls, fetches, fetched, writes, wrote>>

(***************************************************************************)
(* Bounds of the model and constants of the program.                       *)
(***************************************************************************)
\* The expiry wrapper gives a cached page (line 56).
\* Mutant: a longer expiry than documented.
TTL_Long == 2 * 10
TTL == 10
MaxTime == 16
MaxCalls == 2
\* The documented expiry of a cached page, and the delay of the example page.
DocTTL == 10
FetchSeconds == 5

Procs == {"p1", "p2"}
Urls == {"A", "B"}

Empty == <<>>
Hello == <<104, 101, 108, 108, 111>>
Eacute == <<233>>
Contents == {Empty, Hello, Eacute}
\* The pages the remote server of a url may answer with.
Pages(u) == IF u = "A" THEN {Empty, Hello} ELSE {Empty, Eacute}

None == [kind |-> "None"]
Str(s) == [kind |-> "str", val |-> s]
Bytes(b) == [kind |-> "bytes", val |-> b]

(***************************************************************************)
(* UTF-8, as str.encode / bytes.decode compute it.                         *)
(***************************************************************************)
EncodeCodePoint(c) ==
    IF c < 128 THEN <<c>>
    ELSE IF c < 2048 THEN <<192 + (c \div 64), 128 + (c % 64)>>
    ELSE IF c < 65536
         THEN <<224 + (c \div 4096), 128 + ((c \div 64) % 64), 128 + (c % 64)>>
         ELSE <<240 + (c \div 262144), 128 + ((c \div 4096) % 64),
                128 + ((c \div 64) % 64), 128 + (c % 64)>>

RECURSIVE Utf8Encode(_)
Utf8Encode(s) ==
    IF s = <<>> THEN <<>> ELSE EncodeCodePoint(Head(s)) \o Utf8Encode(Tail(s))

Rest(b, n) == SubSeq(b, n + 1, Len(b))

\* Mutant: the bytes are decoded one byte per character (latin-1).
Utf8Decode_Latin1(b) == b

RECURSIVE Utf8Decode(_)
Utf8Decode(b) ==
    IF b = <<>> THEN <<>>
    ELSE LET h == b[1] IN
         IF h < 128 THEN <<h>> \o Utf8Decode(Rest(b, 1))
         ELSE IF h >= 192 /\ h < 224 /\ Len(b) >= 2
              THEN <<(h - 192) * 64 + (b[2] - 128)>> \o Utf8Decode(Rest(b, 2))
         ELSE IF h >= 224 /\ h < 240 /\ Len(b) >= 3
              THEN <<(h - 224) * 4096 + (b[2] - 128) * 64 + (b[3] - 128)>>
                   \o Utf8Decode(Rest(b, 3))
         ELSE IF h >= 240 /\ h < 248 /\ Len(b) >= 4
              THEN <<(h - 240) * 262144 + (b[2] - 128) * 4096
                     + (b[3] - 128) * 64 + (b[4] - 128)>>
                   \o Utf8Decode(Rest(b, 4))
         ELSE <<-1>> \o Utf8Decode(Rest(b, 1))

(***************************************************************************)
(* The Redis keys of a url (lines 44, 47, 56) and the keyspace.            *)
(***************************************************************************)
\* Mutant: the counter is kept under the prefix of the cache keys.
CountKey_CachePrefix(u) == "cached:" \o u
CountKey(u) == "count:" \o u
\* Mutant: one cache key for every url.
CacheKey_Shared(u) == "cached:"
CacheKey(u) == "cached:" \o u
StoreKeys == {CountKey(u) : u \in Urls} \cup {CacheKey(u) : u \in Urls}

Nil == [kind |-> "nil"]
IntEntry(n) == [kind |-> "int", n |-> n]
StrEntry(b, e) == [kind |-> "string", bytes |-> b, exp |-> e]

\* A key with an expiry is gone once the clock has reached the expiry.
Live(e) == \/ e.kind = "int"
           \/ e.kind = "string" /\ now < e.exp

RECURSIVE Digits(_)
Digits(n) == IF n < 10 THEN <<48 + n>> ELSE Digits(n \div 10) \o <<48 + (n % 10)>>

\* GET: the bytes under the key, None when the key does not exist.
StoreGet(key) ==
    LET e == store[key] IN
    IF ~Live(e) THEN None
    ELSE IF e.kind = "int" THEN Bytes(Digits(e.n)) ELSE Bytes(e.bytes)

\* INCR succeeds on a key that does not exist or holds an integer.
IncrOk(key) == ~Live(store[key]) \/ store[key].kind = "int"

\* Mutant: the counter is set, not incremented.
IncrResult_Set(key) == 1

\* INCR: the new value; a key that does not exist counts as 0.
IncrResult(key) == IF Live(store[key]) THEN store[key].n + 1 ELSE 1

\* SETEX key seconds value: the value replaces the entry, the expiry starts anew.
StoreSetex(key, seconds, value) ==
    [store EXCEPT ![key] = StrEntry(Utf8Encode(value), now + seconds)]

\* Python's truth value of what GET returned (line 48).
Truthy(v) == v.kind = "bytes" /\ Len(v.val) > 0

Returned(s) == [kind |-> "return", val |-> s]
Raised(e) == [kind |-> "raise", err |-> e]

TotalCalls == calls["A"] + calls["B"]
Running(p) == pc[p] \in {"get", "fetching", "setex"}

Init ==
    /\ now = 0
    /\ store = [k \in StoreKeys |-> Nil]
    /\ pc = [p \in Procs |-> "idle"]
    /\ url = [p \in Procs |-> "A"]
    /\ html = [p \in Procs |-> None]
    /\ out = [p \in Procs |-> None]
    /\ ops = [p \in Procs |-> <<>>]
    /\ calls = [u \in Urls |-> 0]
    /\ fetches = [u \in Urls |-> 0]
    /\ fetched = [u \in Urls |-> {}]
    /\ writes = [u \in Urls |-> 0]
    /\ wrote = [u \in Urls |-> -1]

(***************************************************************************)
(* wrapper(url), lines 33-59, one action per Redis command or method call. *)
(***************************************************************************)
\* The call of wrapper(u) by p, up to line 44.
Enter(p, u) ==
    /\ pc[p] = "idle"
    /\ url' = [url EXCEPT ![p] = u]
    /\ ops' = [ops EXCEPT ![p] = <<"incr">>]
    /\ calls' = [calls EXCEPT ![u] = @ + 1]

\* Line 44: r.incr(f"count:{url}").
Incr(p, u) ==
    /\ Enter(p, u)
    /\ IncrOk(CountKey(u))
    /\ store' = [store EXCEPT ![CountKey(u)] = IntEntry(IncrResult(CountKey(u)))]
    /\ pc' = [pc EXCEPT ![p] = "get"]
    /\ UNCHANGED <<now, html, out, fetches, fetched, writes, wrote>>

\* Mutant: the failure of INCR is ignored and the call goes on to line 47.
IncrRaises_Ignored(p, u) ==
    /\ Enter(p, u)
    /\ pc' = [pc EXCEPT ![p] = "get"]
    /\ UNCHANGED <<now, store, html, out, fetches, fetched, writes, wrote>>

\* Line 44 raises (no connection, or the key holds no integer).
IncrRaises(p, u) ==
    /\ Enter(p, u)
    /\ out' = [out EXCEPT ![p] = Raised("StoreError")]
    /\ pc' = [pc EXCEPT ![p] = "done"]
    /\ UNCHANGED <<now, store, html, fetches, fetched, writes, wrote>>

\* Mutant: a hit writes the page back, which starts its expiry anew.
GetHit_Refresh(p) ==
    /\ pc[p] = "get"
    /\ Truthy(StoreGet(CacheKey(url[p])))
    /\ store' = StoreSetex(CacheKey(url[p]), TTL,
                           Utf8Decode(StoreGet(CacheKey(url[p])).val))
    /\ out' = [out EXCEPT ![p] = Returned(Utf8Decode(StoreGet(CacheKey(url[p])).val))]
    /\ pc' = [pc EXCEPT ![p] = "done"]
    /\ ops' = [ops EXCEPT ![p] = Append(@, "get")]
    /\ UNCHANGED <<now, url, html, calls, fetches, fetched, writes, wrote>>

\* Lines 47-50: the cached value is truthy and is returned decoded.
GetHit(p) ==
    /\ pc[p] = "get"
    /\ Truthy(StoreGet(CacheKey(url[p])))
    /\ out' = [out EXCEPT ![p] = Returned(Utf8Decode(StoreGet(CacheKey(url[p])).val))]
    /\ pc' = [pc EXCEPT ![p] = "done"]
    /\ ops' = [ops EXCEPT ![p] = Append(@, "get")]
    /\ UNCHANGED <<now, store, url, html, calls, fetches, fetched, writes, wrote>>

\* Mutant: a miss waits while another call is fetching the same url.
GetMiss_SingleFlight(p) ==
    /\ pc[p] = "get"
    /\ ~Truthy(StoreGet(CacheKey(url[p])))
    /\ \A q \in Procs \ {p} : ~(pc[q] \in {"fetching", "setex"} /\ url[q] = url[p])
    /\ pc' = [pc EXCEPT ![p] = "fetching"]
    /\ ops' = [ops EXCEPT ![p] = @ \o <<"get", "fetch">>]
    /\ fetches' = [fetches EXCEPT ![url[p]] = @ + 1]
    /\ UNCHANGED <<now, store, url, html, out, calls, fetched, writes, wrote>>

\* Lines 47-53: the cached value is falsy and method(url) is called.
GetMiss(p) ==
    /\ pc[p] = "get"
    /\ ~Truthy(StoreGet(CacheKey(url[p])))
    /\ pc' = [pc EXCEPT ![p] = "fetching"]
    /\ ops' = [ops EXCEPT ![p] = @ \o <<"get", "fetch">>]
    /\ fetches' = [fetches EXCEPT ![url[p]] = @ + 1]
    /\ UNCHANGED <<now, store, url, html, out, calls, fetched, writes, wrote>>

\* Line 47 raises.
GetRaises(p) ==
    /\ pc[p] = "get"
    /\ out' = [out EXCEPT ![p] = Raised("StoreError")]
    /\ pc' = [pc EXCEPT ![p] = "done"]
    /\ ops' = [ops EXCEPT ![p] = Append(@, "get")]
    /\ UNCHANGED <<now, store, url, html, calls, fetches, fetched, writes, wrote>>

\* Line 53: method(url) returns the page c.
FetchReturns(p, c) ==
    /\ pc[p] = "fetching"
    /\ html' = [html EXCEPT ![p] = Str(c)]
    /\ pc' = [pc EXCEPT ![p] = "setex"]
    /\ fetched' = [fetched EXCEPT ![url[p]] = @ \cup {c}]
    /\ UNCHANGED <<now, store, url, out, ops, calls, fetches, writes, wrote>>

\* Mutant: the failure of method is caught and an empty page is returned.
FetchRaises_Swallowed(p) ==
    /\ pc[p] = "fetching"
    /\ out' = [out EXCEPT ![p] = Returned(Empty)]
    /\ pc' = [pc EXCEPT ![p] = "done"]
    /\ UNCHANGED <<now, store, url, html, ops, calls, fetches, fetched, writes, wrote>>

\* Line 53: method(url) raises, and wrapper has no handler.
FetchRaises(p) ==
    /\ pc[p] = "fetching"
    /\ out' = [out EXCEPT ![p] = Raised("FetchError")]
    /\ pc' = [pc EXCEPT ![p] = "done"]
    /\ UNCHANGED <<now, store, url, html, ops, calls, fetches, fetched, writes, wrote>>

\* Mutant: the page is returned without being cached.
Setex_NoWrite(p) ==
    /\ pc[p] = "setex"
    /\ out' = [out EXCEPT ![p] = Returned(html[p].val)]
    /\ pc' = [pc EXCEPT ![p] = "done"]
    /\ ops' = [ops EXCEPT ![p] = Append(@, "setex")]
    /\ UNCHANGED <<now, store, url, html, calls, fetches, fetched, writes, wrote>>

\* Lines 56-59: r.setex(f"cached:{url}", 10, html); return html.
Setex(p) ==
    /\ pc[p] = "setex"
    /\ store' = StoreSetex(CacheKey(url[p]), TTL, html[p].val)
    /\ writes' = [writes EXCEPT ![url[p]] = @ + 1]
    /\ wrote' = [wrote EXCEPT ![url[p]] = now]
    /\ out' = [out EXCEPT ![p] = Returned(html[p].val)]
    /\ pc' = [pc EXCEPT ![p] = "done"]
    /\ ops' = [ops EXCEPT ![p] = Append(@, "setex")]
    /\ UNCHANGED <<now, url, html, calls, fetches, fetched>>

\* Mutant: the failure of SETEX is caught and the fetched page is returned.
SetexRaises_Fallback(p) ==
    /\ pc[p] = "setex"
    /\ out' = [out EXCEPT ![p] = Returned(html[p].val)]
    /\ pc' = [pc EXCEPT ![p] = "done"]
    /\ ops' = [ops EXCEPT ![p] = Append(@, "setex")]
    /\ UNCHANGED <<now, store, url, html, calls, fetches, fetched, writes, wrote>>

\* Line 56 raises.
SetexRaises(p) ==
    /\ pc[p] = "setex"
    /\ out' = [out EXCEPT ![p] = Raised("StoreError")]
    /\ pc' = [pc EXCEPT ![p] = "done"]
    /\ ops' = [ops EXCEPT ![p] = Append(@, "setex")]
    /\ UNCHANGED <<now, store, url, html, calls, fetches, fetched, writes, wrote>>

\* The caller has taken the result (lines 83-88); the frame of wrapper is gone.
Leave(p) ==
    /\ pc[p] = "done"
    /\ pc' = [pc EXCEPT ![p] = "idle"]
    /\ url' = [url EXCEPT ![p] = "A"]
    /\ html' = [html EXCEPT ![p] = None]
    /\ out' = [out EXCEPT ![p] = None]
    /\ ops' = [ops EXCEPT ![p] = <<>>]
    /\ UNCHANGED <<now, store, calls, fetches, fetched, writes, wrote>>

\* A second passes on the server's clock.
Advance ==
    /\ now < MaxTime
    /\ now' = now + 1
    /\ UNCHANGED <<store, pc, url, html, out, ops, calls, fetches, fetched, writes, wrote>>

\* While no cached page is live nothing depends on the clock's value, and
\* the clock is advanced only while one is.
Tick ==
    /\ \E u \in Urls : store[CacheKey(u)].kind = "string" /\ Live(store[CacheKey(u)])
    /\ Advance

Step(p) ==
    \/ GetHit(p)
    \/ GetMiss(p)
    \/ GetRaises(p)
    \/ \E c \in Pages(url[p]) : FetchReturns(p, c)
    \/ FetchRaises(p)
    \/ Setex(p)
    \/ SetexRaises(p)
    \/ Leave(p)

\* Callers run concurrently.
Next ==
    \/ \E p \in Procs, u \in Urls : TotalCalls < MaxCalls /\ Incr(p, u)
    \/ \E p \in Procs, u \in Urls : TotalCalls < MaxCalls /\ IncrRaises(p, u)
    \/ \E p \in Procs : Step(p)
    \/ Tick

Spec == Init /\ [][Next]_vars

\* Callers run concurrently and INCR answers.
ConcNext ==
    \/ \E p \in Procs, u \in Urls : TotalCalls < MaxCalls /\ Incr(p, u)
    \/ \E p \in Procs : Step(p)
    \/ Tick

ConcSpec == Init /\ [][ConcNext]_vars

\* Callers run concurrently, and Redis and method eventually answer: a call
\* that is in progress eventually takes its next step.
LiveSpec == Spec /\ \A p \in Procs : WF_vars(Step(p))

\* One call at a time, and INCR answers: wrapper is called only when no
\* other call is in progress.
SeqNext ==
    \/ \E p \in Procs, u \in Urls :
          TotalCalls < MaxCalls /\ (\A q \in Procs : ~Running(q)) /\ Incr(p, u)
    \/ \E p \in Procs : Step(p)
    \/ Tick

SeqSpec == Init /\ [][SeqNext]_vars

(***************************************************************************)
(* The example of lines 81-88 as a schedule: caller p1 asks for page "A"   *)
(* at the seconds 0, 6 and 16, the page is "hello" and takes FetchSeconds  *)
(* to fetch, and the Redis commands take no time.  Caller p2 asks for page *)
(* "B" whenever it likes.                                                  *)
(***************************************************************************)
CallAt(i) == CASE i = 1 -> 0 [] i = 2 -> 6 [] OTHER -> 16

ScenarioDue ==
    pc["p1"] = "idle" /\ calls["A"] < 3 /\ now = CallAt(calls["A"] + 1)

ScenarioCall == ScenarioDue /\ Incr("p1", "A")

ScenarioFetch ==
    /\ now = CallAt(calls["A"]) + FetchSeconds
    /\ FetchReturns("p1", Hello)

ScenarioOther ==
    \/ calls["B"] < MaxCalls /\ Incr("p2", "B")
    \/ Step("p2")

ScenarioTick ==
    /\ ~ScenarioDue
    /\ pc["p1"] \in {"idle", "fetching"}
    /\ ~(pc["p1"] = "fetching" /\ now = CallAt(calls["A"]) + FetchSeconds)
    /\ Advance

ScenarioNext ==
    \/ ScenarioCall
    \/ GetHit("p1")
    \/ GetMiss("p1")
    \/ ScenarioFetch
    \/ Setex("p1")
    \/ Leave("p1")
    \/ ScenarioOther
    \/ ScenarioTick

ScenarioSpec == Init /\ [][ScenarioNext]_vars

\* The value of the counter of u; a key that does not exist counts as 0.
CounterOf(u) ==
    IF store[CountKey(u)].kind = "int" THEN store[CountKey(u)].n ELSE 0

Quiet == \A p \in Procs : ~Running(p)

(***************************************************************************)
(* C1.  In a run of one call after the other, whenever no call is in       *)
(* progress the counter of every url equals the number of calls of wrapper *)
(* made on it so far (the counter starts at 0), whatever the calls were:   *)
(* hits, misses, or calls whose fetch or cache command failed.             *)
(***************************************************************************)
C1_CounterCountsCalls ==
    Quiet => \A u \in Urls : CounterOf(u) = calls[u]

\* Two calls on "A", a miss and then a hit, have ended.
C1_Witness ==
    /\ Quiet
    /\ calls["A"] = 2 /\ CounterOf("A") = 2 /\ fetches["A"] = 1
    /\ \E p \in Procs : pc[p] = "done" /\ ops[p] = <<"incr", "get">>
                        /\ out[p] = Returned(Hello)

(***************************************************************************)
(* C2.  Two calls on the same url, one after the other, both within the    *)
(* first DocTTL seconds and both returning a page, with method having      *)
(* answered the same page every time: the two calls return the same page   *)
(* and method was called at most once.                                     *)
(***************************************************************************)
C2_TwoCallsOneFetch ==
    \A u \in Urls :
        ( /\ now < DocTTL
          /\ calls[u] = 2
          /\ Cardinality(fetched[u]) <= 1
          /\ \A p \in Procs : pc[p] = "done" /\ url[p] = u /\ out[p].kind = "return" )
        => /\ \A p, q \in Procs : out[p] = out[q]
           /\ fetches[u] <= 1

(***************************************************************************)
(* C3.  A cache read made DocTTL seconds or more after the last write of   *)
(* the url's cache key is a miss: method is called again; and the page it  *)
(* returns is then written to the cache key again.                         *)
(***************************************************************************)
C3_MissAfterExpiry ==
    [][\A p \in Procs :
        /\ ( /\ pc[p] = "get" /\ pc'[p] # "get"
             /\ out'[p] # Raised("StoreError")
             /\ wrote[url[p]] >= 0 /\ now >= wrote[url[p]] + DocTTL )
           => /\ pc'[p] = "fetching"
              /\ fetches'[url[p]] = fetches[url[p]] + 1
        /\ ( /\ pc[p] = "setex" /\ pc'[p] = "done"
             /\ out'[p] # Raised("StoreError") )
           => /\ store'[CacheKey(url[p])].kind = "string"
              /\ Utf8Decode(store'[CacheKey(url[p])].bytes) = html[p].val
              /\ wrote'[url[p]] = now
              /\ writes'[url[p]] = writes[url[p]] + 1
      ]_vars

\* "hello" was cached, expired, and was fetched and written a second time.
C3_Witness ==
    \E u \in Urls :
        /\ fetched[u] = {Hello}
        /\ fetches[u] = 2 /\ writes[u] = 2
        /\ wrote[u] >= DocTTL
        /\ store[CacheKey(u)] = StrEntry(Utf8Encode(Hello), wrote[u] + DocTTL)

(***************************************************************************)
(* C4.  When method raises, the call of wrapper ends with that failure,    *)
(* the counter of the url keeps the increment of the call, and the call    *)
(* writes nothing: the keyspace is as it was before method raised and the  *)
(* call has executed no SETEX.                                             *)
(***************************************************************************)
C4_FetchFailure ==
    [][\A p \in Procs :
        ( pc[p] = "fetching" /\ pc'[p] # "fetching" /\ html'[p] = None )
        => /\ pc'[p] = "done"
           /\ out'[p] = Raised("FetchError")
           /\ store' = store
           /\ writes' = writes
           /\ CounterOf(url[p]) = calls[url[p]]
           /\ ops'[p] = <<"incr", "get", "fetch">>
      ]_vars

\* The first call on a url ended with the failure of method.
C4_Witness ==
    \E p \in Procs :
        /\ pc[p] = "done" /\ out[p] = Raised("FetchError")
        /\ calls[url[p]] = 1 /\ CounterOf(url[p]) = 1
        /\ store[CacheKey(url[p])] = Nil

(***************************************************************************)
(* C5.  A step of a call of wrapper on one url leaves the counter and the  *)
(* cache entry (page and expiry) of every other url unchanged.             *)
(***************************************************************************)
C5_OtherKeysUntouched ==
    [][\A p \in Procs :
        ( pc'[p] # pc[p] /\ pc'[p] # "idle" )
        => \A v \in Urls \ {url'[p]} :
              /\ store'[CountKey(v)] = store[CountKey(v)]
              /\ store'[CacheKey(v)] = store[CacheKey(v)]
      ]_vars

\* Both urls have been counted and cached, each with its own page.
C5_Witness ==
    /\ CounterOf("A") = 1 /\ CounterOf("B") = 1
    /\ store[CacheKey("A")].kind = "string"
    /\ store[CacheKey("B")].kind = "string"
    /\ store[CacheKey("A")].bytes = Utf8Encode(Hello)
    /\ store[CacheKey("B")].bytes = Utf8Encode(Eacute)

(***************************************************************************)
(* C6.  The example schedule: the first call on "A", made at second 0,     *)
(* returns "hello" at second 5 with the counter at 1 and "hello" cached    *)
(* until second 15; the second call, at second 6, returns "hello" from the *)
(* cache without calling method and leaves the counter at 2; the third     *)
(* call, at second 16, finds no cached page, calls method again and leaves *)
(* the counter at 3.                                                       *)
(***************************************************************************)
C6_ExampleSchedule ==
    /\ calls["A"] >= 1 => CounterOf("A") = calls["A"]
    /\ (calls["A"] = 1 /\ pc["p1"] = "done")
       => /\ now = 5
          /\ out["p1"] = Returned(Hello)
          /\ store[CacheKey("A")] = StrEntry(Utf8Encode(Hello), 15)
    /\ calls["A"] = 2
       => /\ fetches["A"] = 1
          /\ pc["p1"] \in {"get", "done", "idle"}
          /\ pc["p1"] = "done"
             => now = 6 /\ out["p1"] = Returned(Hello) /\ ops["p1"] = <<"incr", "get">>
    /\ calls["A"] = 3
       => /\ now >= 16
          /\ pc["p1"] = "get" => now = 16 /\ fetches["A"] = 1
          /\ pc["p1"] # "get" => fetches["A"] = 2

\* The third call has found no cached page and has called method.
C6_Witness ==
    /\ calls["A"] = 3 /\ CounterOf("A") = 3
    /\ pc["p1"] = "fetching" /\ fetches["A"] = 2
    /\ now = 16

(***************************************************************************)
(* C7.  A call of wrapper starts with INCR: either the counter of its url  *)
(* goes up by one and the call goes on to the cache read, or INCR raises   *)
(* and the call ends there with the keyspace unchanged, no cache read, no  *)
(* call of method and no cache write.  A call that is past its first       *)
(* command has INCR as its first and only increment.                       *)
(***************************************************************************)
C7_IncrementFirst ==
    /\ [](\A p \in Procs :
            pc[p] # "idle"
            => /\ Len(ops[p]) >= 1 /\ ops[p][1] = "incr"
               /\ \A i \in 2..Len(ops[p]) : ops[p][i] # "incr")
    /\ [][\A p \in Procs :
            ( pc[p] = "idle" /\ pc'[p] # "idle" )
            => \/ /\ \A u \in Urls :
                        CounterOf(u)' = CounterOf(u) + (IF u = url'[p] THEN 1 ELSE 0)
                  /\ pc'[p] = "get"
                  /\ ops'[p] = <<"incr">>
               \/ /\ pc'[p] = "done"
                  /\ out'[p] = Raised("StoreError")
                  /\ ops'[p] = <<"incr">>
                  /\ store' = store
                  /\ fetches' = fetches
                  /\ writes' = writes
       ]_vars

\* INCR raised in the first call of all: nothing was counted, read or written.
C7_Witness ==
    \E p \in Procs :
        /\ pc[p] = "done" /\ out[p] = Raised("StoreError") /\ ops[p] = <<"incr">>
        /\ TotalCalls = 1
        /\ \A k \in StoreKeys : store[k] = Nil
        /\ \A u \in Urls : fetches[u] = 0

(***************************************************************************)
(* C8.  A cache read that finds an unexpired entry, whatever its content,  *)
(* ends the call with that content, decoded, and does not call method.     *)
(***************************************************************************)
C8_LiveEntryIsHit ==
    [][\A p \in Procs :
        ( /\ pc[p] = "get" /\ pc'[p] # "get"
          /\ out'[p] # Raised("StoreError")
          /\ StoreGet(CacheKey(url[p])) # None )
        => /\ pc'[p] = "done"
           /\ out'[p] = Returned(Utf8Decode(StoreGet(CacheKey(url[p])).val))
           /\ fetches' = fetches
      ]_vars

(***************************************************************************)
(* C9.  A cache hit leaves the keyspace as it is (page and expiry of the   *)
(* entry included) and calls method not at all; and a cache key changes    *)
(* only in the SETEX of a call on its url that missed and whose method     *)
(* returned a page.                                                        *)
(***************************************************************************)
C9_HitWritesNothing ==
    [][/\ \A p \in Procs :
            ( /\ pc[p] = "get" /\ pc'[p] = "done"
              /\ out'[p].kind = "return" )
            => /\ store' = store
               /\ fetches' = fetches
               /\ writes' = writes
       /\ \A u \in Urls :
            store'[CacheKey(u)] # store[CacheKey(u)]
            => \E p \in Procs :
                  /\ pc[p] = "setex" /\ pc'[p] = "done"
                  /\ url[p] = u
                  /\ ops[p] = <<"incr", "get", "fetch">>
                  /\ html[p] \in {Str(c) : c \in fetched[u]}
      ]_vars

\* A call has hit a page that was cached some seconds before.
C9_Witness ==
    \E p \in Procs :
        /\ pc[p] = "done" /\ ops[p] = <<"incr", "get">> /\ out[p] = Returned(Hello)
        /\ wrote[url[p]] >= 0 /\ now > wrote[url[p]]
        /\ store[CacheKey(url[p])] = StrEntry(Utf8Encode(Hello), wrote[url[p]] + DocTTL)

(***************************************************************************)
(* C10.  The SETEX step of a call that missed: method was called once in   *)
(* the call, the page it returned is what is written under the url's cache *)
(* key, with expiry DocTTL seconds after the write, and what the call      *)
(* returns; a GET of the key right after yields that page.                 *)
(***************************************************************************)
C10_MissWritesAndReturns ==
    [][\A p \in Procs :
        ( /\ pc[p] = "setex" /\ pc'[p] = "done"
          /\ out'[p] # Raised("StoreError") )
        => /\ ops'[p] = <<"incr", "get", "fetch", "setex">>
           /\ html[p].val \in fetched[url[p]]
           /\ out'[p] = Returned(html[p].val)
           /\ store'[CacheKey(url[p])].kind = "string"
           /\ store'[CacheKey(url[p])].exp = now + DocTTL
           /\ Utf8Decode(store'[CacheKey(url[p])].bytes) = html[p].val
           /\ StoreGet(CacheKey(url[p]))' = Bytes(Utf8Encode(out'[p].val))
           /\ \A k \in StoreKeys \ {CacheKey(url[p])} : store'[k] = store[k]
      ]_vars

\* A call has missed, fetched the two-byte page and returned it.
C10_Witness ==
    \E p \in Procs :
        /\ pc[p] = "done" /\ ops[p] = <<"incr", "get", "fetch", "setex">>
        /\ out[p] = Returned(Eacute)
        /\ store[CacheKey(url[p])] = StrEntry(<<195, 169>>, now + DocTTL)

\* The commands of a call, in program order.
Program == <<"incr", "get", "fetch", "setex">>
IsPrefix(a, b) == Len(a) <= Len(b) /\ a = SubSeq(b, 1, Len(a))

(***************************************************************************)
(* C11.  A failing Redis command ends the call with the Store error and is *)
(* not tried again: a call executes each command at most once, in program  *)
(* order; when the cache read raises, method is not called and nothing is  *)
(* written; when the cache write is not executed after method returned, the*)
(* call ends with the Store error and not with the fetched page.           *)
(***************************************************************************)
C11_StoreErrorPropagates ==
    /\ [](\A p \in Procs :
            /\ IsPrefix(ops[p], Program)
            /\ (pc[p] = "done" /\ out[p] = Raised("StoreError"))
               => ops[p] \in {<<"incr">>, <<"incr", "get">>, Program})
    /\ [][\A p \in Procs :
            /\ ( pc[p] = "get" /\ pc'[p] = "done" /\ out'[p].kind = "raise" )
               => /\ out'[p] = Raised("StoreError")
                  /\ ops'[p] = <<"incr", "get">>
                  /\ store' = store
                  /\ fetches' = fetches
                  /\ writes' = writes
            /\ ( pc[p] = "setex" /\ pc'[p] # "setex" /\ writes' = writes )
               => /\ pc'[p] = "done"
                  /\ out'[p] = Raised("StoreError")
                  /\ ops'[p] = Program
                  /\ store' = store
                  /\ fetches' = fetches
       ]_vars

\* SETEX raised after method had returned "hello": nothing is cached.
C11_Witness ==
    \E p \in Procs :
        /\ pc[p] = "done" /\ out[p] = Raised("StoreError") /\ ops[p] = Program
        /\ html[p] = Str(Hello)
        /\ store[CacheKey(url[p])] = Nil
        /\ fetches[url[p]] = 1 /\ writes[url[p]] = 0

(***************************************************************************)
(* C12.  A GET of a url's cache key yields a page only if a SETEX of the   *)
(* key was executed less than DocTTL seconds ago; the entry under the key  *)
(* always carries the expiry of its last SETEX, the time of that write     *)
(* plus DocTTL, and is the page of a write.                                *)
(***************************************************************************)
C12_VisibleWithinTTL ==
    \A u \in Urls :
        /\ StoreGet(CacheKey(u)) # None
           => wrote[u] >= 0 /\ now - wrote[u] < DocTTL
        /\ store[CacheKey(u)] # Nil
           => /\ store[CacheKey(u)].kind = "string"
              /\ writes[u] >= 1
              /\ store[CacheKey(u)].exp = wrote[u] + DocTTL
        /\ (wrote[u] >= 0 /\ now - wrote[u] >= DocTTL)
           => StoreGet(CacheKey(u)) = None

\* "hello" was cached, its time is up and no call is in progress: GET yields None.
C12_Witness ==
    \E u \in Urls :
        /\ \A p \in Procs : pc[p] = "idle"
        /\ writes[u] = 1
        /\ store[CacheKey(u)] = StrEntry(Utf8Encode(Hello), wrote[u] + DocTTL)
        /\ now = wrote[u] + DocTTL
        /\ StoreGet(CacheKey(u)) = None

(***************************************************************************)
(* C13.  No lock covers the read and the write of a call: while one call   *)
(* is between its cache read and its cache write, another call on the same *)
(* url that reads no page can go on to call method too; and a SETEX that   *)
(* finds a live entry under the key replaces it and starts its expiry anew.*)
(***************************************************************************)
C13_NoLock ==
    /\ [](\A p \in Procs : \A q \in Procs \ {p} :
            ( /\ pc[p] \in {"fetching", "setex"}
              /\ pc[q] = "get" /\ url[q] = url[p]
              /\ ~Truthy(StoreGet(CacheKey(url[q]))) )
            => ENABLED GetMiss(q))
    /\ [][\A p \in Procs :
            ( /\ pc[p] = "setex" /\ pc'[p] = "done"
              /\ writes' # writes
              /\ StoreGet(CacheKey(url[p])) # None )
            => /\ store'[CacheKey(url[p])]
                    = StrEntry(Utf8Encode(html[p].val), now + DocTTL)
               /\ writes'[url[p]] = writes[url[p]] + 1
               /\ wrote'[url[p]] = now
       ]_vars

\* Two calls on one url both read no page, both fetched "hello" and both
\* wrote it, the second some seconds after the first.
C13_Witness ==
    \E u \in Urls :
        /\ \A p \in Procs : /\ pc[p] = "done" /\ url[p] = u
                            /\ ops[p] = Program /\ out[p] = Returned(Hello)
        /\ fetches[u] = 2 /\ writes[u] = 2
        /\ wrote[u] > 0 /\ wrote[u] < DocTTL
        /\ store[CacheKey(u)] = StrEntry(Utf8Encode(Hello), wrote[u] + DocTTL)

(***************************************************************************)
(* C14.  With callers running concurrently and every INCR answering, the   *)
(* counter of a url equals the number of calls started on it, each of      *)
(* which has executed its INCR, in every interleaving; and no step of any  *)
(* call lowers a counter.                                                  *)
(***************************************************************************)
C14_ConcurrentIncrements ==
    /\ [](\A u \in Urls : CounterOf(u) = calls[u])
    /\ [][\A u \in Urls : CounterOf(u)' >= CounterOf(u)]_vars

\* Two calls on "A" are in progress at once and both have been counted.
C14_Witness ==
    /\ \A p \in Procs : Running(p) /\ url[p] = "A"
    /\ calls["A"] = 2 /\ CounterOf("A") = 2

(***************************************************************************)
(* C15.  A call executes its commands in program order, each at most once, *)
(* INCR first; it ends either returning a page, after the cache read hit   *)
(* or after method and SETEX were executed, the page being one method has  *)
(* returned for its url, or raising the error of the command that failed;  *)
(* until it has ended it has no result.  When Redis and method answer,     *)
(* every call in progress eventually ends.                                 *)
(***************************************************************************)
C15_OneOutcome ==
    /\ [](\A p \in Procs :
            /\ IsPrefix(ops[p], Program)
            /\ pc[p] = "idle" => ops[p] = <<>> /\ out[p] = None
            /\ Running(p) => Len(ops[p]) >= 1 /\ out[p] = None
            /\ pc[p] = "done"
               => \/ /\ out[p].kind = "return"
                     /\ ops[p] \in {<<"incr", "get">>, Program}
                     /\ out[p].val \in fetched[url[p]]
                  \/ /\ out[p] = Raised("StoreError")
                     /\ ops[p] \in {<<"incr">>, <<"incr", "get">>, Program}
                  \/ /\ out[p] = Raised("FetchError")
                     /\ ops[p] = <<"incr", "get", "fetch">>)
    /\ \A p \in Procs : Running(p) ~> pc[p] = "done"

\* One call has returned a fetched page while the other ended with the
\* failure of method.
C15_Witness ==
    \E p, q \in Procs :
        /\ pc[p] = "done" /\ out[p] = Returned(Hello) /\ ops[p] = Program
        /\ pc[q] = "done" /\ out[q] = Raised("FetchError")

(***************************************************************************)
(* C16.  In every interleaving the page under a url's cache key, and every *)
(* page a call on the url returns, is a page that method has returned for  *)
(* that same url.                                                          *)
(***************************************************************************)
C16_OnlyFetchedPages ==
    /\ \A u \in Urls :
          store[CacheKey(u)].kind = "string"
          => Utf8Decode(store[CacheKey(u)].bytes) \in fetched[u]
    /\ \A p \in Procs :
          (pc[p] = "done" /\ out[p].kind = "return")
          => out[p].val \in fetched[url[p]]

\* A call on "B" returned the two-byte page from the cache.
C16_Witness ==
    \E p \in Procs :
        /\ pc[p] = "done" /\ url[p] = "B" /\ ops[p] = <<"incr", "get">>
        /\ out[p] = Returned(Eacute)
        /\ fetched["B"] = {Eacute} /\ fetched["A"] = {}

(***************************************************************************)
(* C17.  For every url, method has been called and SETEX has been executed *)
(* at most as many times as the url's counter has been incremented.        *)
(***************************************************************************)
C17_CountedBeforeFetched ==
    \A u \in Urls :
        /\ fetches[u] <= CounterOf(u)
        /\ writes[u] <= CounterOf(u)

\* Two calls on one url have both fetched and both written.
C17_Witness ==
    \E u \in Urls : fetches[u] = 2 /\ writes[u] = 2 /\ CounterOf(u) = 2

(***************************************************************************)
(* C18.  The counter key of a url is never the cache key of a url, for     *)
(* urls chosen to collide if they could; INCR leaves every cache key as it *)
(* is and SETEX leaves every counter key as it is.                         *)
(***************************************************************************)
KeyNames == Urls \cup {"", "count:", "cached:", "count:A", "cached:A", "ount:A", "ached:A"}

C18_KeysDisjoint ==
    /\ [](\A u, v \in KeyNames : CountKey(u) # CacheKey(v))
    /\ [][\A p \in Procs :
            /\ ( pc[p] = "idle" /\ pc'[p] # "idle" )
               => \A v \in Urls : store'[CacheKey(v)] = store[CacheKey(v)]
            /\ ( pc[p] = "setex" /\ pc'[p] # "setex" )
               => \A v \in Urls : store'[CountKey(v)] = store[CountKey(v)]
       ]_vars

\* One url has been counted and cached.
C18_Witness ==
    \E u \in Urls :
        /\ store[CountKey(u)] = IntEntry(1)
        /\ store[CacheKey(u)].kind = "string"
        /\ writes[u] = 1
====
